---- MODULE Spec2Model ----
(***************************************************************************)
(* One FTP control session of server_ftp.py (AnonymusFtpServerThread) over *)
(* a POSIX file tree, with the CWD/CDUP pair of ftpsrv.py (ServerThread)   *)
(* run beside it on the same tree.                                         *)
(*                                                                         *)
(* A path is the sequence of its '/'-separated components, counted from    *)
(* the filesystem root "/" (the empty sequence).  A command argument is    *)
(* the pair (abs, segs): abs says whether the text starts with '/', segs   *)
(* are its components, where ".." and "." are components like any other    *)
(* until something resolves them.  The component "" is the empty last      *)
(* component that os.path.join(cwd, "") leaves behind (a trailing '/').    *)
(* The tree holds no symbolic links: no command creates one.               *)
(***************************************************************************)
EXTENDS Integers, Sequences, FiniteSets, TLC

\* ------------------------------------------------------------------ bounds
\* longest argument, in components
MaxSegs == 2
\* deepest entry of the file tree, in components below "/"
MaxDepth == 3
\* CDUPs counted after one CWD
MaxUps == 4

\* ------------------------------------------------------------------ inputs
Root == <<"r">>
Names == {"a"}
Tokens == Names \cup {".."}

SeqsUpTo(S, n) == UNION {[1..k -> S] : k \in 0..n}

Args == [abs : BOOLEAN, segs : SeqsUpTo(Tokens, MaxSegs)]

Unset == <<>>
Some(v) == <<v>>

\* ------------------------------------------------------------ path algebra
Last(s) == s[Len(s)]
Front(s) == SubSeq(s, 1, Len(s) - 1)

IsPrefix(p, q) == Len(p) <= Len(q) /\ SubSeq(q, 1, Len(p)) = p

\* root or a descendant of root
InRoot(p) == IsPrefix(Root, p)

\* os.path.normpath of an absolute path: "." and "" vanish, ".." removes the
\* component before it and is itself dropped at "/".
RECURSIVE NormFrom(_, _)
NormFrom(acc, rest) ==
    IF rest = <<>> THEN acc
    ELSE LET t == Head(rest) IN
         IF t = "." \/ t = "" THEN NormFrom(acc, Tail(rest))
         ELSE IF t = ".." THEN NormFrom(IF acc = <<>> THEN acc ELSE Front(acc), Tail(rest))
         ELSE NormFrom(Append(acc, t), Tail(rest))

NormPath(segs) == NormFrom(<<>>, segs)

\* os.path.realpath: without symbolic links, and with missing components
\* kept as written, the canonical path is the normalised one
RealPath(segs) == NormPath(segs)

\* os.path.join(base, arg): an argument starting with '/' replaces the base
Join(base, arg) ==
    IF arg.abs THEN arg.segs
    ELSE IF arg.segs = <<>> THEN Append(base, "")
    ELSE base \o arg.segs

\* os.path.commonpath of two absolute paths: the longest common prefix
RECURSIVE CommonPath(_, _)
CommonPath(p, q) ==
    IF p = <<>> \/ q = <<>> \/ Head(p) # Head(q) THEN <<>>
    ELSE <<Head(p)>> \o CommonPath(Tail(p), Tail(q))

\* Python's  needle in hay  on the two path strings
Contains(hay, needle) ==
    \E i \in 0..Len(hay) :
        i + Len(needle) <= Len(hay) /\ SubSeq(hay, i + 1, i + Len(needle)) = needle

\* pathlib.Path(text): "." components and a trailing '/' vanish, ".." stays
PathParts(segs) == SelectSeq(segs, LAMBDA t : t # "." /\ t # "")

TrimAnchor(arg) == [abs |-> FALSE, segs |-> arg.segs]

\* the validator without realpath: ".." is compared as if it were a name
IsNameValid_Unresolved(arg) ==
    LET trimmed == TrimAnchor(arg)
        result == Join(Root, trimmed)
        common == CommonPath(Root, result)
    IN Contains(common, Root)

IsNameValid(arg) ==
    LET trimmed == TrimAnchor(arg)
        result == RealPath(Join(Root, trimmed))
        common == CommonPath(Root, result)
    IN Contains(common, Root)


\* ---------------------------------------------------------------- the state
VARIABLES
    pc,              \* position in run: "init", "ready" (at recv), "replied", "closed"
    cwd,             \* self.cwd: [kind, segs]; kind "str" or "Path" (a pathlib object)
    filename_cache,  \* Unset while the attribute does not exist, else Some(argument)
    type,            \* self.type
    pasv_mode,       \* self.pasv_mode
    serversocket,    \* "unset", "listening", "closed"
    datasocket,      \* "unset", "created" (open, not connected), "open", "closed"
    data_addr,       \* Unset or Some(host)
    data_port,       \* Unset or Some(port)
    dirs,            \* the directories of the file tree
    files,           \* the regular files of the file tree
    trace,           \* what the command last read did: system calls and replies, in order
    cwd0,            \* ServerThread.cwd of ftpsrv.py, a str
    nav,             \* since the last CWD from root by plain names: <<depth, CDUPs since>>
    nav0,            \* the same for the ftpsrv.py session
    rn,              \* rename history: "idle", "armed" (an RNFR replied 350 and no RNTO
                     \* came since), "rnto_armed" / "rnto_bare" (the command just
                     \* processed was an RNTO, with / without such an RNFR before it)
    msg,             \* run's msg: the line last read, as characters; Unset before any
    wire,            \* the text of the reply last sent on the control socket
    reg,             \* the last PORT or PASV that succeeded: "none", "port", "pasv"
    used,            \* a transfer has completed since that PORT or PASV
    disk,            \* the bytes of the files written by STOR and APPE, by path
    delivered,       \* the bytes the last RETR sent on the data socket
    uploaded,        \* the last completed STOR: <<argument, bytes the client sent>>
    heap,            \* the session objects Server.run has created, by identity
    threads,         \* per session thread: its object and what its own commands give
    fds,             \* the sockets the session has made that are open: how many
                     \* listeners and data sockets, which of them it still holds
    lastreg,         \* data_addr and data_port as the last PORT or PASV that
                     \* succeeded set them
    rnpath,          \* the absolute path the last RNFR that replied 350 checked
    race             \* two sessions inside DELE or RMD: where each one is

vars == <<pc, cwd, filename_cache, type, pasv_mode, serversocket, datasocket,
          data_addr, data_port, dirs, files, trace, cwd0, nav, nav0, rn,
          msg, wire, reg, used, disk, delivered, uploaded, heap, threads,
          fds, lastreg, rnpath, race>>

\* what the line-level loop, the channel history, the file contents and the
\* concurrent sessions add to the state
later == <<msg, wire, reg, used, disk, delivered, uploaded, heap, threads,
           fds, lastreg, rnpath, race>>

\* the session and the tree as one value, for the handlers to work on
Cur ==
    [cwd |-> cwd, filename_cache |-> filename_cache, type |-> type,
     pasv_mode |-> pasv_mode, serversocket |-> serversocket,
     datasocket |-> datasocket, data_addr |-> data_addr, data_port |-> data_port,
     dirs |-> dirs, files |-> files]

\* -------------------------------------------------------------- observation
Ev(name, n, path) == [ev |-> name, n |-> n, path |-> path]
Reply(code) == Ev("reply", code, <<>>)
\* a system call on a path; n = 1 when it succeeded
Sys(name, ok, segs) == Ev(name, IF ok THEN 1 ELSE 0, NormPath(segs))
\* an operation on a socket; n = 1 when it succeeded
Sock(name, ok) == Ev(name, IF ok THEN 1 ELSE 0, <<>>)

\* ------------------------------------------------------------ the file tree
Entries(s) == s.dirs \cup s.files

Children(s, d) == {p \in Entries(s) : Len(p) = Len(d) + 1 /\ IsPrefix(d, p)}

\* The kernel's walk along a path, from "/": every component but the last
\* must be a directory by the time it is left.
RECURSIVE Walk(_, _, _)
Walk(s, cur, rest) ==
    IF rest = <<>> THEN [ok |-> TRUE, path |-> cur]
    ELSE IF cur \notin s.dirs THEN [ok |-> FALSE, path |-> cur]
    ELSE LET t == Head(rest) IN
         IF t = "." \/ t = "" THEN Walk(s, cur, Tail(rest))
         ELSE IF t = ".." THEN Walk(s, IF cur = <<>> THEN cur ELSE Front(cur), Tail(rest))
         ELSE Walk(s, Append(cur, t), Tail(rest))

\* os.path.exists / Path.exists: stat succeeds
Exists(s, segs) ==
    LET w == Walk(s, <<>>, segs) IN w.ok /\ w.path \in Entries(s)

NoSlash(segs) == IF segs # <<>> /\ Last(segs) = "" THEN Front(segs) ELSE segs

\* Each call gives [err, dirs, files]; err = "" when the call succeeded.
Done(s, d, f) == [err |-> "", dirs |-> d, files |-> f]
Fail(s, e) == [err |-> e, dirs |-> s.dirs, files |-> s.files]

Mkdir(s, segs) ==
    LET p == NoSlash(segs) IN
    IF p = <<>> THEN Fail(s, "EEXIST")
    ELSE LET w == Walk(s, <<>>, Front(p)) IN
         IF ~w.ok \/ w.path \notin s.dirs THEN Fail(s, "ENOENT")
         ELSE IF Last(p) \in {".", ".."} THEN Fail(s, "EEXIST")
         ELSE IF Append(w.path, Last(p)) \in Entries(s) THEN Fail(s, "EEXIST")
         ELSE Done(s, s.dirs \cup {Append(w.path, Last(p))}, s.files)

Rmdir(s, segs) ==
    LET p == NoSlash(segs) IN
    IF p = <<>> THEN Fail(s, "EBUSY")
    ELSE LET w == Walk(s, <<>>, Front(p)) IN
         IF ~w.ok \/ w.path \notin s.dirs THEN Fail(s, "ENOENT")
         ELSE IF Last(p) = "." THEN Fail(s, "EINVAL")
         ELSE IF Last(p) = ".." THEN Fail(s, "ENOTEMPTY")
         ELSE LET t == Append(w.path, Last(p)) IN
              IF t \notin s.dirs THEN Fail(s, "ENOTDIR")
              ELSE IF Children(s, t) # {} THEN Fail(s, "ENOTEMPTY")
              ELSE Done(s, s.dirs \ {t}, s.files)

\* os.remove
Unlink(s, segs) ==
    LET w == Walk(s, <<>>, segs) IN
    IF ~w.ok THEN Fail(s, "ENOENT")
    ELSE IF w.path \in s.dirs THEN Fail(s, "EISDIR")
    ELSE IF w.path \in s.files THEN Done(s, s.dirs, s.files \ {w.path})
    ELSE Fail(s, "ENOENT")

\* os.listdir / Path.iterdir: [err, names]
ListDir(s, segs) ==
    LET w == Walk(s, <<>>, segs) IN
    IF ~w.ok \/ w.path \notin Entries(s) THEN [err |-> "ENOENT", names |-> {}]
    ELSE IF w.path \in s.files THEN [err |-> "ENOTDIR", names |-> {}]
    ELSE [err |-> "", names |-> Children(s, w.path)]

\* open(path, "w" | "a" | "wb"): creates the file when it is missing
OpenWrite(s, segs) ==
    IF segs = <<>> THEN Fail(s, "EISDIR")
    ELSE LET w == Walk(s, <<>>, Front(segs)) IN
         IF ~w.ok \/ w.path \notin s.dirs THEN Fail(s, "ENOENT")
         ELSE IF Last(segs) \in {"", ".", ".."} THEN Fail(s, "EISDIR")
         ELSE IF Append(w.path, Last(segs)) \in s.dirs THEN Fail(s, "EISDIR")
         ELSE Done(s, s.dirs, s.files \cup {Append(w.path, Last(segs))})

\* open(path, "r") of a normalised path
OpenRead(s, p) ==
    IF p \in s.files THEN Done(s, s.dirs, s.files)
    ELSE IF p \in s.dirs THEN Fail(s, "EISDIR")
    ELSE Fail(s, "ENOENT")

\* the entry p, moved with everything below it from under old to under new
Moved(old, new, p) == new \o SubSeq(p, Len(old) + 1, Len(p))

\* os.rename of two normalised paths
Rename(s, old, new) ==
    IF old \notin Entries(s) \/ old = <<>> \/ new = <<>> THEN Fail(s, "ENOENT")
    ELSE IF Front(new) \notin s.dirs THEN Fail(s, "ENOENT")
    ELSE IF old = new THEN Done(s, s.dirs, s.files)
    ELSE IF old \in s.files
         THEN IF new \in s.dirs THEN Fail(s, "EISDIR")
              ELSE Done(s, s.dirs, (s.files \ {old}) \cup {new})
    ELSE IF new \in s.files THEN Fail(s, "ENOTDIR")
    ELSE IF IsPrefix(old, new) THEN Fail(s, "EINVAL")
    ELSE IF new \in s.dirs /\ Children(s, new) # {} THEN Fail(s, "ENOTEMPTY")
    ELSE LET under(p) == IsPrefix(old, p) IN
         Done(s,
              {p \in s.dirs : ~under(p)} \cup {Moved(old, new, p) : p \in {q \in s.dirs : under(q)}},
              {p \in s.files : ~under(p)} \cup {Moved(old, new, p) : p \in {q \in s.files : under(q)}})


\* ------------------------------------------------------------- data channel
\* What the peer and the network do to one transfer: nothing unusual, the
\* peer refuses the outbound connection, or the data connection breaks.
Envs == {"ok", "refused", "iofault"}

\* A step of a handler gives [s, raised, ev]: the state it leaves, whether
\* an exception left it, and what it did.
Went(s, ev) == [s |-> s, raised |-> FALSE, ev |-> ev]
Threw(s, ev) == [s |-> s, raised |-> TRUE, ev |-> ev]

\* the active branch with a target made up when none was registered
StartDatasock_AnyTarget(s, env) ==
    IF s.pasv_mode
    THEN IF s.serversocket = "listening"
         THEN Went([s EXCEPT !.datasocket = "open"], <<Sock("accept", TRUE)>>)
         ELSE Threw(s, <<Sock("accept", FALSE)>>)
    ELSE IF env = "refused"
         THEN Threw([s EXCEPT !.datasocket = "created"], <<Sock("connect", FALSE)>>)
         ELSE Went([s EXCEPT !.datasocket = "open"], <<Sock("connect", TRUE)>>)

StartDatasock(s, env) ==
    IF s.pasv_mode
    THEN IF s.serversocket = "listening"
         THEN Went([s EXCEPT !.datasocket = "open"], <<Sock("accept", TRUE)>>)
         ELSE Threw(s, <<Sock("accept", FALSE)>>)
    ELSE LET s1 == [s EXCEPT !.datasocket = "created"] IN
         IF s.data_addr = Unset \/ s.data_port = Unset \/ env = "refused"
         THEN Threw(s1, <<Sock("connect", FALSE)>>)
         ELSE Went([s1 EXCEPT !.datasocket = "open"], <<Sock("connect", TRUE)>>)

StopDatasock(s) ==
    IF s.datasocket = "unset" THEN Threw(s, <<>>)
    ELSE LET s1 == [s EXCEPT !.datasocket = "closed"] IN
         IF s.pasv_mode
         THEN Went([s1 EXCEPT !.serversocket = "closed"],
                   <<Sock("close", TRUE), Sock("close_listener", TRUE)>>)
         ELSE Went(s1, <<Sock("close", TRUE)>>)

\* ----------------------------------------------------------------- handlers
\* A handler gives [s, raised, status, ev]: status is the code it returns
\* when no exception leaves it.
Ret(s, status, ev) == [s |-> s, raised |-> FALSE, status |-> status, ev |-> ev]
Exc(s, ev) == [s |-> s, raised |-> TRUE, status |-> 0, ev |-> ev]

WithTree(s, r) == [s EXCEPT !.dirs = r.dirs, !.files = r.files]

\* self.cwd == self.root: a pathlib object never equals a str
CwdIsRoot(s) == s.cwd.kind = "str" /\ s.cwd.segs = Root

\* the return value of _create_or_append, as [s, raised, ok, ev]
CreateOrAppend(s, mode, filename, env) ==
    IF ~IsNameValid(filename)
    THEN [s |-> s, raised |-> FALSE, ok |-> FALSE, ev |-> <<>>]
    ELSE LET sd == StartDatasock(s, env)
             ev1 == <<Reply(150)>> \o sd.ev
         IN
         IF sd.raised THEN [s |-> sd.s, raised |-> TRUE, ok |-> FALSE, ev |-> ev1]
         ELSE IF env = "iofault"
         THEN [s |-> sd.s, raised |-> TRUE, ok |-> FALSE, ev |-> ev1 \o <<Sock("recv", FALSE)>>]
         ELSE LET s2 == [sd.s EXCEPT !.datasocket = "closed"]
                  path == Join(s.cwd.segs, filename)
                  o == OpenWrite(s2, path)
                  ev2 == ev1 \o <<Sock("recv", TRUE), Sock("close", TRUE)>>
              IN
              IF o.err # ""
              THEN [s |-> s2, raised |-> FALSE, ok |-> FALSE,
                    ev |-> ev2 \o <<Sys("open_w", FALSE, path)>>]
              ELSE IF mode = "a" /\ s.type = "I"
              THEN [s |-> WithTree(s2, o), raised |-> FALSE, ok |-> FALSE,
                    ev |-> ev2 \o <<Sys("open_w", TRUE, path), Sys("write", FALSE, path)>>]
              ELSE [s |-> WithTree(s2, o), raised |-> FALSE, ok |-> TRUE,
                    ev |-> ev2 \o <<Sys("open_w", TRUE, path), Sys("write", TRUE, path)>>]

RNFR(s, arg) ==
    IF ~IsNameValid(arg) THEN Ret(s, 553, <<>>)
    ELSE LET file_path == NormPath(Join(s.cwd.segs, arg)) IN
         IF file_path \notin Entries(s)
         THEN Ret(s, 553, <<Sys("stat", FALSE, file_path)>>)
         ELSE Ret([s EXCEPT !.filename_cache = Some(arg)], 350,
                  <<Sys("stat", TRUE, file_path)>>)

RNTO(s, arg) ==
    IF ~IsNameValid(arg) THEN Ret(s, 553, <<>>)
    ELSE IF s.filename_cache = Unset THEN Exc(s, <<>>)
    ELSE LET old == NormPath(Join(s.cwd.segs, s.filename_cache[1]))
             new == NormPath(Join(s.cwd.segs, arg))
             r == Rename(s, old, new)
         IN
         IF r.err # ""
         THEN Ret(s, 553, <<Sys("rename", FALSE, old), Sys("rename_to", FALSE, new)>>)
         ELSE Ret(WithTree(s, r), 250,
                  <<Sys("rename", TRUE, old), Sys("rename_to", TRUE, new)>>)

RETR(s, arg, env) ==
    IF ~IsNameValid(arg) THEN Ret(s, 553, <<>>)
    ELSE LET file_path == NormPath(Join(s.cwd.segs, arg)) IN
         IF file_path \notin Entries(s)
         THEN Ret(s, 553, <<Sys("stat", FALSE, file_path)>>)
         ELSE LET sd == StartDatasock(s, env)
                  ev1 == <<Sys("stat", TRUE, file_path), Reply(150)>> \o sd.ev
              IN
              IF sd.raised THEN Exc(sd.s, ev1)
              ELSE IF OpenRead(sd.s, file_path).err # ""
              THEN Exc(sd.s, ev1 \o <<Sys("open_r", FALSE, file_path)>>)
              ELSE IF env = "iofault"
              THEN Exc(sd.s, ev1 \o <<Sys("open_r", TRUE, file_path), Sock("send", FALSE)>>)
              ELSE LET st == StopDatasock(sd.s) IN
                   Ret(st.s, 250,
                       ev1 \o <<Sys("open_r", TRUE, file_path), Sock("send", TRUE)>> \o st.ev)

DELE(s, arg) ==
    IF ~IsNameValid(arg) THEN Ret(s, 553, <<>>)
    ELSE LET path == Join(s.cwd.segs, arg) IN
         IF ~Exists(s, PathParts(path))
         THEN Ret(s, 553, <<Sys("stat", FALSE, path)>>)
         ELSE LET r == Unlink(s, path) IN
              IF r.err # ""
              THEN Exc(s, <<Sys("stat", TRUE, path), Sys("remove", FALSE, path)>>)
              ELSE Ret(WithTree(s, r), 250,
                       <<Sys("stat", TRUE, path), Sys("remove", TRUE, path)>>)

TYPE(s, arg) ==
    IF arg = "A" \/ arg = "I" THEN Ret([s EXCEPT !.type = arg], 200, <<>>)
    ELSE Ret(s, 500, <<>>)

STOR(s, arg, env) ==
    LET mode == IF s.type = "A" THEN "w" ELSE "wb"
        r == CreateOrAppend(s, mode, arg, env)
    IN IF r.raised THEN Exc(r.s, r.ev)
       ELSE IF r.ok THEN Ret(r.s, 226, r.ev)
       ELSE Ret(r.s, 501, r.ev)

APPE(s, arg, env) ==
    LET r == CreateOrAppend(s, "a", arg, env)
    IN IF r.raised THEN Exc(r.s, r.ev)
       ELSE IF r.ok THEN Ret(r.s, 226, r.ev)
       ELSE Ret(r.s, 501, r.ev)

\* CDUP without the test for root
CDUP_Unclamped(s) ==
    Ret([s EXCEPT !.cwd = [kind |-> "str", segs |-> NormPath(Append(s.cwd.segs, ".."))]],
        230, <<>>)

CDUP(s) ==
    IF CwdIsRoot(s) THEN Ret(s, 553, <<>>)
    ELSE Ret([s EXCEPT !.cwd = [kind |-> "str", segs |-> NormPath(Append(s.cwd.segs, ".."))]],
             230, <<>>)

MKD(s, arg) ==
    IF ~IsNameValid(arg) THEN Ret(s, 553, <<>>)
    ELSE LET path == Join(s.cwd.segs, arg)
             r == Mkdir(s, path)
         IN
         IF r.err = "" THEN Ret(WithTree(s, r), 250, <<Sys("mkdir", TRUE, path)>>)
         ELSE IF r.err = "EEXIST" THEN Ret(s, 553, <<Sys("mkdir", FALSE, path)>>)
         ELSE Exc(s, <<Sys("mkdir", FALSE, path)>>)

RMD(s, arg) ==
    IF ~IsNameValid(arg) THEN Ret(s, 553, <<>>)
    ELSE LET path == Join(s.cwd.segs, arg) IN
         IF ~Exists(s, path) THEN Ret(s, 553, <<Sys("stat", FALSE, path)>>)
         ELSE LET l == ListDir(s, path)
                  ev1 == <<Sys("stat", TRUE, path)>>
              IN
              IF l.err # "" THEN Exc(s, ev1 \o <<Sys("listdir", FALSE, path)>>)
              ELSE IF l.names # {} THEN Ret(s, 553, ev1 \o <<Sys("listdir", TRUE, path)>>)
              ELSE LET r == Rmdir(s, path)
                       ev2 == ev1 \o <<Sys("listdir", TRUE, path)>>
                   IN
                   IF r.err # "" THEN Ret(s, 553, ev2 \o <<Sys("rmdir", FALSE, path)>>)
                   ELSE Ret(WithTree(s, r), 250, ev2 \o <<Sys("rmdir", TRUE, path)>>)

CWD(s, arg) ==
    IF ~IsNameValid(arg) THEN Ret(s, 553, <<>>)
    ELSE LET arg_tr == TrimAnchor(arg)
             location == Root \o PathParts(arg_tr.segs)
         IN
         IF ~Exists(s, location) THEN Ret(s, 553, <<Sys("stat", FALSE, location)>>)
         ELSE Ret([s EXCEPT !.cwd = [kind |-> "Path", segs |-> location]], 250,
                  <<Sys("stat", TRUE, location)>>)

\* LIST that sends its 226 itself and returns it as well
LIST_RepliesItself(s, env) ==
    LET sd == StartDatasock(s, env)
        ev1 == <<Reply(150)>> \o sd.ev
    IN
    IF sd.raised THEN Exc(sd.s, ev1)
    ELSE LET st == StopDatasock(sd.s) IN
         Ret(st.s, 226, ev1 \o st.ev \o <<Reply(226)>>)

LIST(s, env) ==
    LET sd == StartDatasock(s, env)
        ev1 == <<Reply(150)>> \o sd.ev
    IN
    IF sd.raised THEN Exc(sd.s, ev1)
    ELSE LET l == ListDir(sd.s, PathParts(s.cwd.segs)) IN
         IF l.err # "" THEN Exc(sd.s, ev1 \o <<Sys("iterdir", FALSE, s.cwd.segs)>>)
         ELSE IF l.names # {} /\ env = "iofault"
         THEN Exc(sd.s, ev1 \o <<Sys("iterdir", TRUE, s.cwd.segs), Sock("send", FALSE)>>)
         ELSE LET st == StopDatasock(sd.s) IN
              Ret(st.s, 226,
                  ev1 \o <<Sys("iterdir", TRUE, s.cwd.segs)>>
                      \o (IF l.names # {} THEN <<Sock("send", TRUE)>> ELSE <<>>) \o st.ev)

NLST(s, env) == LIST(s, env)


\* int(text) for the decimal numerals the inputs use; Unset when int raises
Numerals == ("0" :> 0) @@ ("1" :> 1) @@ ("4" :> 4) @@ ("255" :> 255)
IntOf(text) == IF text \in DOMAIN Numerals THEN Some(Numerals[text]) ELSE Unset

\* the argument of PORT, already split at ','
PortArgs ==
    { <<"10", "0", "0", "1", "4", "1">>,
      <<"10", "0", "0", "2">>,
      <<"10", "0", "0", "3", "x", "1">> }

\* self.host, and the ports the system may bind a PASV listener to
Host == <<"127", "0", "0", "1">>
PasvPorts == {49152, 65535}

\* PORT, line 249: (p1 << 8) + p2
PortOf(p1, p2) == p1 * 256 + p2

PORT(s, host_port) ==
    LET s1 == [s EXCEPT !.data_addr =
                   Some(SubSeq(host_port, 1, IF Len(host_port) < 4 THEN Len(host_port) ELSE 4))]
    IN
    IF Len(host_port) < 6 THEN Exc(s1, <<>>)
    ELSE IF IntOf(host_port[5]) = Unset \/ IntOf(host_port[6]) = Unset THEN Exc(s1, <<>>)
    ELSE Ret([s1 EXCEPT !.data_port = Some(PortOf(IntOf(host_port[5])[1], IntOf(host_port[6])[1]))],
             200, <<>>)

PASV(s, port) ==
    Ret([s EXCEPT !.pasv_mode = TRUE, !.serversocket = "listening",
                  !.data_addr = Some(Host), !.data_port = Some(port)],
        227, <<Sock("listen", TRUE)>>)

\* ------------------------------------------------------ ftpsrv.py, navigation
\* ServerThread._is_name_valid: the name must resolve to a child of cwd
SrvIsNameValid(c, name) ==
    LET test_path == RealPath(Join(c, name))
        parent == IF test_path = <<>> THEN <<>> ELSE Front(test_path)
    IN parent = RealPath(c)

\* ServerThread.CWD, as [cwd, status]
SrvCWD(s, c, arg) ==
    IF ~SrvIsNameValid(c, arg) THEN [cwd |-> c, status |-> 553]
    ELSE LET target == NormPath(Join(c, arg)) IN
         IF target \notin Entries(s) THEN [cwd |-> c, status |-> 553]
         ELSE [cwd |-> target, status |-> 250]

\* ServerThread.CDUP, as [cwd, status]
SrvCDUP(c) ==
    IF c = Root THEN [cwd |-> c, status |-> 230]
    ELSE [cwd |-> NormPath(Append(c, "..")), status |-> 230]

\* ------------------------------------------------------------------ the loop
InitDirs == {<<>>, Root, Root \o <<"a">>}
InitFiles == {<<"a">>, Root \o <<"a", "a">>}

Init ==
    /\ pc = "init"
    /\ cwd = [kind |-> "str", segs |-> Root]
    /\ filename_cache = Unset
    /\ type = "A"
    /\ pasv_mode = FALSE
    /\ serversocket = "unset"
    /\ datasocket = "unset"
    /\ data_addr = Unset
    /\ data_port = Unset
    /\ dirs = InitDirs
    /\ files = InitFiles
    /\ trace = <<>>
    /\ cwd0 = Root
    /\ nav = <<>>
    /\ nav0 = <<>>
    /\ rn = "idle"
    /\ msg = Unset
    /\ wire = ""
    /\ reg = "none"
    /\ used = FALSE
    /\ disk = <<>>
    /\ delivered = <<>>
    /\ uploaded = <<>>
    /\ heap = <<>>
    /\ threads = <<>>
    /\ fds = [nl |-> 0, nd |-> 0, hl |-> FALSE, hd |-> FALSE, rebound |-> FALSE]
    /\ lastreg = <<Unset, Unset>>
    /\ rnpath = Unset
    /\ race = <<>>

\* the model keeps the file tree within MaxDepth
InBounds(s) == \A p \in Entries(s) : Len(p) <= MaxDepth

\* run, lines 36-42: the handler's state is kept, and its status, or 500 when
\* an exception left it, is sent as the last reply of the command
Run(r) ==
    /\ pc = "ready"
    /\ InBounds(r.s)
    /\ pc' = "replied"
    /\ cwd' = r.s.cwd
    /\ filename_cache' = r.s.filename_cache
    /\ type' = r.s.type
    /\ pasv_mode' = r.s.pasv_mode
    /\ serversocket' = r.s.serversocket
    /\ datasocket' = r.s.datasocket
    /\ data_addr' = r.s.data_addr
    /\ data_port' = r.s.data_port
    /\ dirs' = r.s.dirs
    /\ files' = r.s.files
    /\ trace' = r.ev \o <<Reply(IF r.raised THEN 500 ELSE r.status)>>
    /\ cwd0' = cwd0

Session == <<cwd, filename_cache, type, pasv_mode, serversocket, datasocket,
             data_addr, data_port, dirs, files>>

\* run, line 24
Greet ==
    /\ pc = "init"
    /\ pc' = "replied"
    /\ trace' = <<Reply(220)>>
    /\ UNCHANGED <<Session, cwd0>>

\* run, lines 25-26: back at the top of the loop, waiting for the next line
NextLine ==
    /\ pc = "replied"
    /\ pc' = "ready"
    /\ trace' = <<>>
    /\ UNCHANGED <<Session, cwd0>>

\* run, lines 31-32: an empty line, or the peer has closed the stream
Hangup ==
    /\ pc = "ready"
    /\ pc' = "closed"
    /\ trace' = <<>>
    /\ UNCHANGED <<Session, cwd0>>

DoCWD(arg) == Run(CWD(Cur, arg))
DoCDUP == Run(CDUP(Cur))
DoMKD(arg) == Run(MKD(Cur, arg))
DoRMD(arg) == Run(RMD(Cur, arg))
DoDELE(arg) == Run(DELE(Cur, arg))
DoRNFR(arg) == Run(RNFR(Cur, arg))
DoRNTO(arg) == Run(RNTO(Cur, arg))
DoRETR(arg, env) == Run(RETR(Cur, arg, env))
DoSTOR(arg, env) == Run(STOR(Cur, arg, env))
DoAPPE(arg, env) == Run(APPE(Cur, arg, env))
DoLIST(env) == Run(LIST(Cur, env))
DoNLST(env) == Run(NLST(Cur, env))
DoTYPE(arg) == Run(TYPE(Cur, arg))
DoPORT(host_port) == Run(PORT(Cur, host_port))
DoPASV(port) == Run(PASV(Cur, port))

\* the ftpsrv.py session, on the same tree
DoSrvCWD(arg) ==
    /\ cwd0' = SrvCWD(Cur, cwd0, arg).cwd
    /\ UNCHANGED <<pc, Session, trace>>

DoSrvCDUP ==
    /\ cwd0' = SrvCDUP(cwd0).cwd
    /\ UNCHANGED <<pc, Session, trace>>

\* ------------------------------------------------------ the loop, by lines
\* A line is a sequence of characters, as recv and decode give it.
crlf == "\r\n"
bcrlf == <<"\r", "\n">>

ALLOWED_COMMANDS ==
    {"ABOR", "ACCT", "ALLO", "APPE", "CWD", "DELE", "HELP", "LIST", "MODE", "NLST",
     "NOOP", "PASS", "PASV", "PORT", "QUIT", "REIN", "REST", "RETR", "RNFR", "RNTO",
     "SITE", "STAT", "STOR", "STRU", "TYPE", "USER", "CDUP", "MKD", "PWD", "RMD",
     "SMNT", "STOU", "SYST", "FEAT"}

\* the verbs of ALLOWED_COMMANDS that getattr finds a method for
Methods ==
    {"ABOR", "ACCT", "RNFR", "RNTO", "RETR", "STRU", "DELE", "NOOP", "TYPE", "PORT",
     "SYST", "STOR", "APPE", "FEAT", "USER", "PASS", "QUIT", "CDUP", "PWD", "MKD",
     "RMD", "CWD", "LIST", "NLST", "PASV"}

\* str.strip(): the white space the lines contain
White == {" ", "\t", "\r", "\n"}

RECURSIVE LStrip(_)
LStrip(cs) == IF cs # <<>> /\ cs[1] \in White THEN LStrip(Tail(cs)) ELSE cs

RECURSIVE RStrip(_)
RStrip(cs) == IF cs # <<>> /\ cs[Len(cs)] \in White THEN RStrip(Front(cs)) ELSE cs

Strip(cs) == RStrip(LStrip(cs))

\* the characters as one string
RECURSIVE Str(_)
Str(cs) == IF cs = <<>> THEN "" ELSE cs[1] \o Str(Tail(cs))

\* run, line 27: msg[:4].strip() and msg[4:].strip()
CmdOf(m) == Str(Strip(SubSeq(m, 1, IF Len(m) < 4 THEN Len(m) ELSE 4)))
ArgOf(m) == Strip(SubSeq(m, 5, Len(m)))

\* str.split(sep), the pieces as strings
RECURSIVE SplitAt(_, _, _)
SplitAt(cs, sep, cur) ==
    IF cs = <<>> THEN <<cur>>
    ELSE IF cs[1] = sep THEN <<cur>> \o SplitAt(Tail(cs), sep, "")
    ELSE SplitAt(Tail(cs), sep, cur \o cs[1])
Split(cs, sep) == SplitAt(cs, sep, "")

NonEmpty(piece) == piece # ""

\* a path argument as the path operators take it; the lines hold no doubled
\* or trailing slash
PathArg(cs) ==
    [abs |-> cs # <<>> /\ cs[1] = "/", segs |-> SelectSeq(Split(cs, "/"), NonEmpty)]

\* _ftp_response: the text sent for a status and a message
FtpResponse(status, message) == ToString(status) \o " " \o message \o " " \o crlf

\* os.path.relpath(path, start) for two normalised absolute paths
RECURSIVE CommonLen(_, _)
CommonLen(p, q) ==
    IF p # <<>> /\ q # <<>> /\ p[1] = q[1] THEN 1 + CommonLen(Tail(p), Tail(q)) ELSE 0

RelPath(path, start) ==
    LET i == CommonLen(path, start)
        rel == [k \in 1 .. (Len(start) - i) |-> ".."] \o SubSeq(path, i + 1, Len(path))
    IN IF rel = <<>> THEN <<".">> ELSE rel

\* the components joined with "/"
RECURSIVE SlashJoin(_)
SlashJoin(segs) ==
    IF segs = <<>> THEN ""
    ELSE IF Len(segs) = 1 THEN segs[1]
    ELSE segs[1] \o "/" \o SlashJoin(Tail(segs))

\* a handler's result with the message it returns
Said(r, m) == [message |-> m] @@ r

USER(s, arg) == Said(Ret(s, 230, <<>>), "OK.")
\* PASS that refuses an empty password
PASS_NonEmpty(s, arg) ==
    IF arg = "" THEN Said(Ret(s, 530, <<>>), "Not logged in.")
    ELSE Said(Ret(s, 230, <<>>), "OK.")

PASS(s, arg) == Said(Ret(s, 230, <<>>), "OK.")
QUIT(s, arg) == Said(Ret(s, 221, <<>>), "Goodbye")
NOOP(s, arg) == Said(Ret(s, 200, <<>>), "OK.")
SYST(s, arg) == Said(Ret(s, 215, <<>>), "UNIX Type: L8")
FEAT(s, arg) == Said(Ret(s, 500, <<>>), "No extended features.")
ACCT(s, arg) == Said(Ret(s, 401, <<>>), "Unauthorized, you are not logged in")
STRU(s, arg) ==
    IF arg = "F" THEN Said(Ret(s, 200, <<>>), "OK.")
    ELSE Said(Ret(s, 500, <<>>), "Bad command or not implemented")

PWD(s, arg) ==
    LET rel == RelPath(NormPath(s.cwd.segs), Root) IN
    Said(Ret(s, 257, <<>>), "\"/" \o SlashJoin(rel) \o "\"")

ABOR(s, arg) ==
    LET s1 == IF s.datasocket = "unset" THEN s ELSE [s EXCEPT !.datasocket = "closed"]
        st == StopDatasock(s1)
    IN IF st.raised THEN Exc(st.s, st.ev)
       ELSE Said(Ret(st.s, 226, st.ev), "Closing data connection.")

\* the address and port of a listener as PASV writes them into its reply
\* the high byte taken one bit short
PasvHigh_Shift7(port) == (port \div 128) % 256

\* port >> 8 & 0xFF and port & 0xFF
PasvHigh(port) == (port \div 256) % 256
PasvLow(port) == port % 256
PasvText(addr, port) ==
    addr[1] \o "," \o addr[2] \o "," \o addr[3] \o "," \o addr[4]
        \o "," \o ToString(PasvHigh(port)) \o "," \o ToString(PasvLow(port))

\* run, lines 37-38: the method named by the verb, called on the argument,
\* with the message it returns
Call(s, cmd, arg, env, port) ==
    LET a == PathArg(arg)
        text == Str(arg)
    IN
    CASE cmd \notin Methods -> Exc(s, <<>>)
      [] cmd = "USER" -> USER(s, text)
      [] cmd = "PASS" -> PASS(s, text)
      [] cmd = "QUIT" -> QUIT(s, text)
      [] cmd = "NOOP" -> NOOP(s, text)
      [] cmd = "SYST" -> SYST(s, text)
      [] cmd = "FEAT" -> FEAT(s, text)
      [] cmd = "ACCT" -> ACCT(s, text)
      [] cmd = "STRU" -> STRU(s, text)
      [] cmd = "PWD" -> PWD(s, text)
      [] cmd = "ABOR" -> ABOR(s, text)
      [] cmd = "TYPE" ->
           LET r == TYPE(s, text) IN
           Said(r, IF r.status = 200 THEN "OK." ELSE "Bad command or not implemented")
      [] cmd = "CDUP" ->
           LET r == CDUP(s) IN
           Said(r, IF r.status = 230 THEN "OK." ELSE "Can't leave root directory")
      [] cmd = "CWD" ->
           LET r == CWD(s, a) IN
           Said(r, IF r.status = 250 THEN "OK."
                   ELSE IF ~IsNameValid(a) THEN "Wrong path " \o text
                   ELSE "Directory " \o text \o " not exists ")
      [] cmd = "MKD" ->
           LET r == MKD(s, a) IN
           Said(r, IF r.status = 250 THEN "Created"
                   ELSE IF ~IsNameValid(a) THEN "Wrong directory name " \o text
                   ELSE "Directory exists " \o text)
      [] cmd = "RMD" ->
           LET r == RMD(s, a) IN
           Said(r, IF r.status = 250 THEN "Removed"
                   ELSE IF r.ev = <<>> THEN "Wrong directory name " \o text
                   ELSE IF Last(r.ev).ev = "stat" THEN "Directory not exists " \o text
                   ELSE IF Last(r.ev).ev = "listdir"
                   THEN "Directory " \o text \o " is not empty."
                   ELSE "Failed to remove directory " \o text)
      [] cmd = "DELE" ->
           LET r == DELE(s, a) IN
           Said(r, IF r.status = 250 THEN "Deleted"
                   ELSE IF ~IsNameValid(a) THEN "Wrong file name " \o text
                   ELSE "File not exists " \o text)
      [] cmd = "RNFR" ->
           LET r == RNFR(s, a) IN
           Said(r, IF r.status = 350 THEN "File ready to rename"
                   ELSE IF ~IsNameValid(a) THEN "File name not allowed"
                   ELSE "File not exists " \o text)
      [] cmd = "RNTO" ->
           LET r == RNTO(s, a) IN
           Said(r, IF r.status = 250 THEN "File renamed to " \o text
                   ELSE IF ~IsNameValid(a) THEN "File name not allowed"
                   ELSE "Failed to rename " \o text)
      [] cmd = "RETR" ->
           LET r == RETR(s, a, env) IN
           Said(r, IF r.status = 250 THEN "OK."
                   ELSE IF ~IsNameValid(a) THEN "File name not allowed"
                   ELSE "File not exists " \o text)
      [] cmd = "STOR" ->
           LET r == STOR(s, a, env) IN
           Said(r, IF r.status = 226 THEN "Closing data connection"
                   ELSE "Failed to create file")
      [] cmd = "APPE" ->
           LET r == APPE(s, a, env) IN
           Said(r, IF r.status = 226 THEN "Closing data connection"
                   ELSE "Failed to append file")
      [] cmd = "LIST" -> Said(LIST(s, env), "Directory send OK.")
      [] cmd = "NLST" -> Said(NLST(s, env), "Directory send OK.")
      [] cmd = "PORT" -> Said(PORT(s, Split(arg, ",")), "Get port.")
      [] cmd = "PASV" ->
           Said(PASV(s, port), "Entering Passive Mode (" \o PasvText(Host, port) \o ")")

\* run, lines 26-42 for one line read from the control socket
ReadLine(l, env, port) ==
    /\ pc = "ready"
    /\ msg' = Some(l)
    /\ IF CmdOf(l) = ""
       THEN /\ pc' = "closed"
            /\ trace' = <<>>
            /\ UNCHANGED <<Session, cwd0, wire>>
       ELSE IF CmdOf(l) \notin ALLOWED_COMMANDS
       THEN /\ pc' = "replied"
            /\ trace' = <<Reply(500)>>
            /\ wire' = FtpResponse(500, "Bad command or not implemented")
            /\ UNCHANGED <<Session, cwd0>>
       ELSE LET r == Call(Cur, CmdOf(l), ArgOf(l), env, port) IN
            /\ Run(r)
            /\ wire' = IF r.raised THEN FtpResponse(500, "Bad command or not implemented")
                       ELSE FtpResponse(r.status, r.message)

\* run, line 24, with the text sent
GreetLine == Greet /\ wire' = FtpResponse(220, "Welcome!") /\ msg' = msg

\* the lines the peer sends; the empty one is what recv gives at end of stream
Lines ==
    { <<>>,
      <<"\r", "\n">>,
      <<"N", "O", "O", "P", "\r", "\n">>,
      <<"n", "o", "o", "p", "\r", "\n">>,
      <<"N", "O", "O", "P", "X", "\r", "\n">>,
      <<"T", "Y", "P", "E", " ", "I", "\r", "\n">>,
      <<"T", "Y", "P", "E", " ", "A", "\r", "\n">>,
      <<"T", "Y", "P", "E", "I", "\r", "\n">>,
      <<"t", "y", "p", "e", " ", "I", "\r", "\n">>,
      <<"r", "u", "n", "\r", "\n">>,
      <<"U", "S", "E", "R", " ", "u", "\r", "\n">>,
      <<"P", "A", "S", "S", "\r", "\n">>,
      <<"P", "A", "S", "S", " ", "p", "\r", "\n">>,
      <<"P", "W", "D", "\r", "\n">>,
      <<"C", "W", "D", " ", "a", "\r", "\n">>,
      <<"C", "W", "D", " ", "/", "\r", "\n">>,
      <<"C", "W", "D", " ", "b", "\r", "\n">>,
      <<"M", "K", "D", " ", "b", "\r", "\n">>,
      <<"C", "D", "U", "P", "\r", "\n">>,
      <<"Q", "U", "I", "T", "\r", "\n">>,
      <<"H", "E", "L", "P", "\r", "\n">>,
      <<"P", "A", "S", "V", "\r", "\n">>,
      <<"L", "I", "S", "T", "\r", "\n">> }

\* ------------------------------------------------------------- histories
\* the last reply of the command just processed
FinalReply(tr) == Last(tr).n

\* rn after a command that is neither RNFR nor RNTO
RnKeep == rn' = IF rn = "armed" THEN "armed" ELSE "idle"
RnAfterRNFR == rn' = IF FinalReply(trace') = 350 \/ rn = "armed" THEN "armed" ELSE "idle"
RnAfterRNTO == rn' = IF rn = "armed" THEN "rnto_armed" ELSE "rnto_bare"

Plain(arg) == ~arg.abs /\ arg.segs # <<>> /\ \A i \in DOMAIN arg.segs : arg.segs[i] \in Names

\* nav after CWD arg
NavAfterCWD(arg) ==
    nav' = IF /\ cwd.segs = Root
              /\ Plain(arg)
              /\ Root \o arg.segs \in dirs
              /\ FinalReply(trace') = 250
           THEN <<Len(arg.segs), 0>> ELSE <<>>
NavAfterCDUP == nav' = IF nav = <<>> THEN nav ELSE <<nav[1], nav[2] + 1>>

Nav0AfterCWD(arg) ==
    nav0' = IF /\ cwd0 = Root
               /\ Plain(arg)
               /\ Root \o arg.segs \in dirs
               /\ SrvCWD(Cur, cwd0, arg).status = 250
            THEN <<Len(arg.segs), 0>> ELSE <<>>
Nav0AfterCDUP == nav0' = IF nav0 = <<>> THEN nav0 ELSE <<nav0[1], nav0[2] + 1>>

\* the data channel registered last, and whether a transfer has used it
Completed(tr) == \E i \in DOMAIN tr : tr[i] = Reply(150) /\ FinalReply(tr) \in {226, 250}
RegAfterPORT ==
    /\ reg' = IF FinalReply(trace') = 200 THEN "port" ELSE reg
    /\ used' = IF FinalReply(trace') = 200 THEN FALSE ELSE used
RegAfterPASV ==
    /\ reg' = IF FinalReply(trace') = 227 THEN "pasv" ELSE reg
    /\ used' = IF FinalReply(trace') = 227 THEN FALSE ELSE used
RegAfterTransfer == reg' = reg /\ used' = (used \/ Completed(trace'))
RegKeep == UNCHANGED <<reg, used>>

\* A socket nothing refers to any more stays open
Dropped_Leaked(held) == 0

\* How many sockets are closed when the attribute that holds the only
\* reference to an open socket is bound to another one: the socket object is
\* deallocated at once, and its deallocation closes it.
Dropped(held) == IF held THEN 1 ELSE 0

\* the open sockets after one socket operation of a handler
FdStep(c, e) ==
    CASE e.ev = "listen" ->
           [c EXCEPT !.nl = c.nl - Dropped(c.hl) + 1, !.hl = TRUE,
                     !.rebound = c.rebound \/ c.hl]
      [] e.ev = "close_listener" ->
           [c EXCEPT !.nl = c.nl - (IF c.hl THEN 1 ELSE 0), !.hl = FALSE]
      [] e.ev = "connect" \/ (e.ev = "accept" /\ e.n = 1) ->
           [c EXCEPT !.nd = c.nd - Dropped(c.hd) + 1, !.hd = TRUE]
      [] e.ev = "close" ->
           [c EXCEPT !.nd = c.nd - (IF c.hd THEN 1 ELSE 0), !.hd = FALSE]
      [] OTHER -> c

RECURSIVE FdFold(_, _)
FdFold(c, evs) == IF evs = <<>> THEN c ELSE FdFold(FdStep(c, evs[1]), Tail(evs))

FdsAfter == fds' = FdFold(fds, trace')

\* the data target as the last PORT or PASV that succeeded left it
TargetAfterReg ==
    lastreg' = IF FinalReply(trace') \in {200, 227} THEN <<data_addr', data_port'>>
              ELSE lastreg
TargetKeep == lastreg' = lastreg

\* rnpath: the absolute path the last RNFR answered 350 looked up
RnPathAfterRNFR(arg) ==
    rnpath' = IF FinalReply(trace') = 350 THEN Some(NormPath(Join(cwd.segs, arg)))
              ELSE rnpath

\* what the rename pair leaves alone besides the navigation history
kept == <<msg, wire, reg, used, disk, delivered, uploaded, heap, threads,
          fds, lastreg, race>>

\* what the specifications that keep no channel history leave alone
rest == <<msg, wire, disk, delivered, uploaded, heap, threads, rnpath, race>>

\* --------------------------------------------------------- specifications
GoodPort == <<"10", "0", "0", "1", "4", "1">>

\* Spec: every command that names a path, over every argument of Args, with
\* an active data channel whose peer accepts.
Next ==
    \/ Greet /\ UNCHANGED <<nav, nav0, rn, later>>
    \/ NextLine /\ UNCHANGED <<nav, nav0, rn, later>>
    \/ \E arg \in Args : DoCWD(arg) /\ UNCHANGED <<nav, nav0, rn, later>>
    \/ DoCDUP /\ UNCHANGED <<nav, nav0, rn, later>>
    \/ \E arg \in Args : DoMKD(arg) /\ UNCHANGED <<nav, nav0, rn, later>>
    \/ \E arg \in Args : DoRMD(arg) /\ UNCHANGED <<nav, nav0, rn, later>>
    \/ \E arg \in Args : DoDELE(arg) /\ UNCHANGED <<nav, nav0, rn, later>>
    \/ \E arg \in Args : DoRNFR(arg) /\ UNCHANGED <<nav, nav0, rn, later>>
    \/ \E arg \in Args : DoRNTO(arg) /\ UNCHANGED <<nav, nav0, rn, later>>
    \/ \E arg \in Args : DoRETR(arg, "ok") /\ UNCHANGED <<nav, nav0, rn, later>>
    \/ \E arg \in Args : DoSTOR(arg, "ok") /\ UNCHANGED <<nav, nav0, rn, later>>
    \/ \E arg \in Args : DoAPPE(arg, "ok") /\ UNCHANGED <<nav, nav0, rn, later>>
    \/ DoPORT(GoodPort) /\ UNCHANGED <<nav, nav0, rn, later>>

Spec == Init /\ [][Next]_vars

\* SpecRen: the rename pair among the commands that change what a name
\* refers to, with the rename history kept.
NextRen ==
    \/ Greet /\ UNCHANGED <<nav, nav0, rn, later>>
    \/ NextLine /\ UNCHANGED <<nav, nav0, rn, later>>
    \/ \E arg \in Args : DoCWD(arg) /\ RnKeep /\ UNCHANGED <<nav, nav0, later>>
    \/ \E arg \in Args : DoMKD(arg) /\ RnKeep /\ UNCHANGED <<nav, nav0, later>>
    \/ \E arg \in Args : DoRNFR(arg) /\ RnAfterRNFR /\ RnPathAfterRNFR(arg)
                          /\ UNCHANGED <<nav, nav0, kept>>
    \/ \E arg \in Args : DoRNTO(arg) /\ RnAfterRNTO /\ UNCHANGED <<nav, nav0, later>>

SpecRen == Init /\ [][NextRen]_vars

\* SpecNav: navigation in both implementations over a tree that MKD, RMD and
\* DELE change, with at most MaxUps CDUPs counted after a CWD.
NextNav ==
    \/ Greet /\ UNCHANGED <<nav, nav0, rn, later>>
    \/ NextLine /\ UNCHANGED <<nav, nav0, rn, later>>
    \/ \E arg \in Args : DoCWD(arg) /\ NavAfterCWD(arg) /\ UNCHANGED <<nav0, rn, later>>
    \/ (nav # <<>> => nav[2] < MaxUps) /\ DoCDUP /\ NavAfterCDUP /\ UNCHANGED <<nav0, rn, later>>
    \/ \E arg \in Args : DoMKD(arg) /\ nav' = <<>> /\ UNCHANGED <<nav0, rn, later>>
    \/ \E arg \in Args : DoRMD(arg) /\ nav' = <<>> /\ UNCHANGED <<nav0, rn, later>>
    \/ \E arg \in Args : DoDELE(arg) /\ nav' = <<>> /\ UNCHANGED <<nav0, rn, later>>
    \/ \E arg \in Args : DoSrvCWD(arg) /\ Nav0AfterCWD(arg) /\ UNCHANGED <<nav, rn, later>>
    \/ (nav0 # <<>> => nav0[2] < MaxUps) /\ DoSrvCDUP /\ Nav0AfterCDUP /\ UNCHANGED <<nav, rn, later>>

SpecNav == Init /\ [][NextNav]_vars

\* SpecXfer: the data channel in both modes, every outcome of a transfer.
XferArgs ==
    { [abs |-> FALSE, segs |-> <<"a">>],
      [abs |-> FALSE, segs |-> <<"a", "a">>],
      [abs |-> FALSE, segs |-> <<"a", "..">>],
      [abs |-> FALSE, segs |-> <<"..">>],
      [abs |-> TRUE, segs |-> <<"a">>] }

NextXfer ==
    \/ Greet /\ UNCHANGED <<nav, nav0, rn, later>>
    \/ NextLine /\ UNCHANGED <<nav, nav0, rn, later>>
    \/ \E hp \in PortArgs :
          DoPORT(hp) /\ RegAfterPORT /\ TargetAfterReg /\ FdsAfter
              /\ UNCHANGED <<nav, nav0, rn, rest>>
    \/ \E port \in PasvPorts :
          DoPASV(port) /\ RegAfterPASV /\ TargetAfterReg /\ FdsAfter
              /\ UNCHANGED <<nav, nav0, rn, rest>>
    \/ \E arg \in {"A", "I", "E"} :
          DoTYPE(arg) /\ RegKeep /\ TargetKeep /\ FdsAfter /\ UNCHANGED <<nav, nav0, rn, rest>>
    \/ \E arg \in XferArgs :
          DoCWD(arg) /\ RegKeep /\ TargetKeep /\ FdsAfter /\ UNCHANGED <<nav, nav0, rn, rest>>
    \/ \E env \in Envs :
          DoLIST(env) /\ RegAfterTransfer /\ TargetKeep /\ FdsAfter
              /\ UNCHANGED <<nav, nav0, rn, rest>>
    \/ \E env \in Envs :
          DoNLST(env) /\ RegAfterTransfer /\ TargetKeep /\ FdsAfter
              /\ UNCHANGED <<nav, nav0, rn, rest>>
    \/ \E arg \in XferArgs, env \in Envs :
          DoRETR(arg, env) /\ RegAfterTransfer /\ TargetKeep /\ FdsAfter
              /\ UNCHANGED <<nav, nav0, rn, rest>>
    \/ \E arg \in XferArgs, env \in Envs :
          DoSTOR(arg, env) /\ RegAfterTransfer /\ TargetKeep /\ FdsAfter
              /\ UNCHANGED <<nav, nav0, rn, rest>>
    \/ \E arg \in XferArgs, env \in Envs :
          DoAPPE(arg, env) /\ RegAfterTransfer /\ TargetKeep /\ FdsAfter
              /\ UNCHANGED <<nav, nav0, rn, rest>>

SpecXfer == Init /\ [][NextXfer]_vars

\* SpecLine: the loop over the lines of one control connection, with the
\* text of every final reply.
LinePort == 49153

NextReadLine == \E l \in Lines : ReadLine(l, "ok", LinePort)

NextLineSpec ==
    \/ GreetLine /\ UNCHANGED <<nav, nav0, rn, reg, used, disk, delivered, uploaded, heap, threads, fds, lastreg, rnpath, race>>
    \/ NextLine /\ UNCHANGED <<nav, nav0, rn, later>>
    \/ NextReadLine /\ UNCHANGED <<nav, nav0, rn, reg, used, disk, delivered, uploaded, heap, threads, fds, lastreg, rnpath, race>>

SpecLine == Init /\ [][NextLineSpec]_vars

\* ---------------------------------------------------------- file contents
\* Bytes on the data socket and in files are sequences of characters.
MaxBytes == 2
Bytes == {"x", "\r"}
Contents == SeqsUpTo(Bytes, MaxBytes) \ {<<>>}

\* what the files of the initial tree hold
InitContent == <<"x">>

\* _recvuntil on the data socket: one recv of at most RecvSize bytes, decoded
RecvSize == 1024
Recv(sent) == IF Len(sent) <= RecvSize THEN sent ELSE SubSeq(sent, 1, RecvSize)

\* f.write in text mode: "\n" becomes os.linesep
linesep == <<"\n">>
RECURSIVE TextWrite(_)
TextWrite(data) ==
    IF data = <<>> THEN <<>>
    ELSE (IF data[1] = "\n" THEN linesep ELSE <<data[1]>>) \o TextWrite(Tail(data))

\* what STOR leaves in the file: text mode for type A, the encoded bytes else
Written(tp, data) == IF tp = "A" THEN TextWrite(data) ELSE data

\* f.read in text mode: "\r\n" and "\r" become "\n"
RECURSIVE TextRead(_)
TextRead(data) ==
    IF data = <<>> THEN <<>>
    ELSE IF data[1] = "\r"
    THEN <<"\n">> \o TextRead(IF Len(data) > 1 /\ data[2] = "\n"
                              THEN Tail(Tail(data)) ELSE Tail(data))
    ELSE <<data[1]>> \o TextRead(Tail(data))

\* RETR, line 188: the text of the file and crlf, encoded
Sent(data) == TextRead(data) \o bcrlf

ContentOf(p) == IF p \in DOMAIN disk THEN disk[p] ELSE InitContent

\* STOR of the bytes the client sends
DoSTORBytes(arg, sent) ==
    LET r == STOR(Cur, arg, "ok")
        p == NormPath(Join(cwd.segs, arg))
    IN
    /\ Run(r)
    /\ IF ~r.raised /\ r.status = 226
       THEN /\ disk' = [q \in DOMAIN disk \cup {p} |->
                           IF q = p THEN Written(type, Recv(sent)) ELSE disk[q]]
            /\ uploaded' = <<p, sent>>
       ELSE UNCHANGED <<disk, uploaded>>
    /\ delivered' = delivered

\* RETR with the bytes it sends
DoRETRBytes(arg) ==
    LET r == RETR(Cur, arg, "ok")
        p == NormPath(Join(cwd.segs, arg))
    IN
    /\ Run(r)
    /\ delivered' = IF ~r.raised /\ r.status = 250 THEN Sent(ContentOf(p)) ELSE <<>>
    /\ UNCHANGED <<disk, uploaded>>

\* SpecTrip: uploads and downloads of two names in both modes and types.
TripArgs ==
    { [abs |-> FALSE, segs |-> <<"b">>],
      [abs |-> FALSE, segs |-> <<"a", "a">>] }

NextTrip ==
    \/ Greet /\ UNCHANGED <<nav, nav0, rn, later>>
    \/ NextLine /\ UNCHANGED <<nav, nav0, rn, later>>
    \/ DoPORT(GoodPort) /\ UNCHANGED <<nav, nav0, rn, later>>
    \/ DoPASV(LinePort) /\ UNCHANGED <<nav, nav0, rn, later>>
    \/ \E arg \in {"A", "I"} : DoTYPE(arg) /\ UNCHANGED <<nav, nav0, rn, later>>
    \/ \E arg \in TripArgs, sent \in Contents :
          DoSTORBytes(arg, sent) /\ UNCHANGED <<nav, nav0, rn, msg, wire, reg, used, heap, threads, fds, lastreg, rnpath, race>>
    \/ \E arg \in TripArgs :
          DoRETRBytes(arg) /\ UNCHANGED <<nav, nav0, rn, msg, wire, reg, used, heap, threads, fds, lastreg, rnpath, race>>

SpecTrip == Init /\ [][NextTrip]_vars

\* SpecPasv: PASV on the ports at the edges of both bytes, and the transfers
\* and PORT commands around it, read as lines.
AllPorts == 0 .. 65535
SamplePorts == {0, 255, 256, 49152, 65280, 65535}
LinePASV == <<"P", "A", "S", "V", "\r", "\n">>
PasvLines ==
    { <<"L", "I", "S", "T", "\r", "\n">>,
      <<"R", "E", "T", "R", " ", "a", "/", "a", "\r", "\n">>,
      <<"P", "O", "R", "T", " ", "1", "0", ",", "0", ",", "0", ",", "1", ",", "4", ",", "1", "\r", "\n">> }

NextPasv ==
    \/ GreetLine /\ UNCHANGED <<nav, nav0, rn, reg, used, disk, delivered, uploaded, heap, threads, fds, lastreg, rnpath, race>>
    \/ NextLine /\ UNCHANGED <<nav, nav0, rn, later>>
    \/ \E port \in SamplePorts :
          /\ ReadLine(LinePASV, "ok", port)
          /\ UNCHANGED <<nav, nav0, rn, reg, used, disk, delivered, uploaded, heap, threads, fds, lastreg, rnpath, race>>
    \/ \E l \in PasvLines, env \in Envs :
          /\ ReadLine(l, env, LinePort)
          /\ UNCHANGED <<nav, nav0, rn, reg, used, disk, delivered, uploaded, heap, threads, fds, lastreg, rnpath, race>>

SpecPasv == Init /\ [][NextPasv]_vars

\* ------------------------------------------------------ several sessions
\* Server.run makes one session object per accepted connection and starts a
\* thread on it; the threads work on their objects and on the one file tree.
MaxSessions == 2

\* the attributes __init__ gives a session object
NewSession ==
    [cwd |-> [kind |-> "str", segs |-> Root], filename_cache |-> Unset, type |-> "A",
     pasv_mode |-> FALSE, serversocket |-> "unset", datasocket |-> "unset",
     data_addr |-> Unset, data_port |-> Unset]

\* a session object together with the file tree, as the handlers take it
WithFs(o) ==
    [cwd |-> o.cwd, filename_cache |-> o.filename_cache, type |-> o.type,
     pasv_mode |-> o.pasv_mode, serversocket |-> o.serversocket,
     datasocket |-> o.datasocket, data_addr |-> o.data_addr, data_port |-> o.data_port,
     dirs |-> dirs, files |-> files]

\* the attributes of the session object in a handler's state
Proto(s) ==
    [cwd |-> s.cwd, filename_cache |-> s.filename_cache, type |-> s.type,
     pasv_mode |-> s.pasv_mode, serversocket |-> s.serversocket,
     datasocket |-> s.datasocket, data_addr |-> s.data_addr, data_port |-> s.data_port]

single == <<pc, cwd, filename_cache, type, pasv_mode, serversocket, datasocket,
            data_addr, data_port, trace, cwd0, nav, nav0, rn, msg, wire, reg, used,
            disk, delivered, uploaded, fds, lastreg, rnpath, race>>

\* every connection is served on the first session object
Accept_SharedObject ==
    /\ Len(threads) < MaxSessions
    /\ heap' = IF heap = <<>> THEN <<NewSession>> ELSE heap
    /\ threads' = Append(threads, [self |-> 1, own |-> NewSession])
    /\ UNCHANGED <<single, dirs, files>>

\* Server.run, lines 382-385: a new object for the connection, and its thread
Accept ==
    /\ Len(threads) < MaxSessions
    /\ heap' = Append(heap, NewSession)
    /\ threads' = Append(threads, [self |-> Len(heap) + 1, own |-> NewSession])
    /\ UNCHANGED <<single, dirs, files>>

\* thread t runs the handler H on its object; own follows what the same
\* command gives on the state t's earlier commands alone had produced
Peer(t, H(_)) ==
    LET me == threads[t]
        r == H(WithFs(heap[me.self]))
        q == H(WithFs(me.own))
    IN
    /\ InBounds(r.s)
    /\ heap' = [heap EXCEPT ![me.self] = Proto(r.s)]
    /\ dirs' = r.s.dirs
    /\ files' = r.s.files
    /\ threads' = [threads EXCEPT ![t].own = Proto(q.s)]
    /\ UNCHANGED single

\* SpecTwo: MaxSessions connections, their commands interleaved.
TwoArgs ==
    { [abs |-> FALSE, segs |-> <<"a">>],
      [abs |-> FALSE, segs |-> <<"b">>] }

NextTwo ==
    \/ Accept
    \/ \E t \in DOMAIN threads, arg \in TwoArgs : Peer(t, LAMBDA s : CWD(s, arg))
    \/ \E t \in DOMAIN threads : Peer(t, LAMBDA s : CDUP(s))
    \/ \E t \in DOMAIN threads, arg \in {"A", "I"} : Peer(t, LAMBDA s : TYPE(s, arg))
    \/ \E t \in DOMAIN threads : Peer(t, LAMBDA s : RNFR(s, [abs |-> FALSE, segs |-> <<"a">>]))
    \/ \E t \in DOMAIN threads : Peer(t, LAMBDA s : MKD(s, [abs |-> FALSE, segs |-> <<"b">>]))
    \/ \E t \in DOMAIN threads : Peer(t, LAMBDA s : PORT(s, GoodPort))
    \/ \E t \in DOMAIN threads : Peer(t, LAMBDA s : PASV(s, LinePort))

SpecTwo == Init /\ [][NextTwo]_vars

\* ------------------------------------------------- commands step by step
\* SpecRace: the sessions of MaxSessions connections, all with cwd = root,
\* run DELE and RMD one system call at a time on the one file tree.  race[t]
\* is thread t: the command and argument it is in, the line it is at, the
\* reply its last command ended with (0 while none has), and saw, whether
\* the entry was there to be removed when the command arrived.
RaceArgs == {[abs |-> FALSE, segs |-> <<"a", "a">>], [abs |-> FALSE, segs |-> <<"a">>]}

RacePath(t) == Join(Root, race[t].arg)

raceless == <<pc, cwd, filename_cache, type, pasv_mode, serversocket, datasocket,
              data_addr, data_port, trace, cwd0, nav, nav0, rn, msg, wire, reg, used,
              disk, delivered, uploaded, heap, threads, fds, lastreg, rnpath>>

\* the thread ends its command with a reply and is back at recv
Answer(t, code) == race' = [race EXCEPT ![t].at = "recv", ![t].reply = code]
Goto(t, line) == race' = [race EXCEPT ![t].at = line]

\* Server.run: one more connection, one more thread
RaceAccept ==
    /\ Len(race) < MaxSessions
    /\ race' = Append(race, [cmd |-> "", arg |-> [abs |-> FALSE, segs |-> <<>>],
                             at |-> "recv", reply |-> 0, saw |-> FALSE])
    /\ UNCHANGED <<raceless, dirs, files>>

\* run reads a line and calls the handler
RaceIssue(t, cmd, arg) ==
    /\ race[t].at = "recv"
    /\ LET target == NormPath(Join(Root, arg)) IN
       race' = [race EXCEPT ![t] =
                   [cmd |-> cmd, arg |-> arg, at |-> "exists", reply |-> 0,
                    saw |-> IF cmd = "DELE" THEN target \in files
                            ELSE target \in dirs /\ Children(Cur, target) = {}]]
    /\ UNCHANGED <<raceless, dirs, files>>

\* DELE lines 213-217 and RMD lines 333-336: the validator and the test
\* that the path exists
RaceExists(t) ==
    /\ race[t].at = "exists"
    /\ IF ~IsNameValid(race[t].arg) THEN Answer(t, 553)
       ELSE IF race[t].cmd = "DELE"
            THEN IF ~Exists(Cur, PathParts(RacePath(t))) THEN Answer(t, 553)
                 ELSE Goto(t, "remove")
       ELSE IF ~Exists(Cur, RacePath(t)) THEN Answer(t, 553)
            ELSE Goto(t, "listdir")
    /\ UNCHANGED <<raceless, dirs, files>>

\* DELE line 219: os.remove, outside any try
RaceRemove(t) ==
    /\ race[t].at = "remove"
    /\ LET r == Unlink(Cur, RacePath(t)) IN
       /\ dirs' = r.dirs
       /\ files' = r.files
       /\ Answer(t, IF r.err = "" THEN 250 ELSE 500)
    /\ UNCHANGED raceless

\* RMD line 337: os.listdir, outside the try
RaceListdir(t) ==
    /\ race[t].at = "listdir"
    /\ LET l == ListDir(Cur, RacePath(t)) IN
       IF l.err # "" THEN Answer(t, 500)
       ELSE IF l.names # {} THEN Answer(t, 553)
       ELSE Goto(t, "rmdir")
    /\ UNCHANGED <<raceless, dirs, files>>

\* RMD lines 339-344: os.rmdir, every exception answered 553
RaceRmdir(t) ==
    /\ race[t].at = "rmdir"
    /\ LET r == Rmdir(Cur, RacePath(t)) IN
       /\ dirs' = r.dirs
       /\ files' = r.files
       /\ Answer(t, IF r.err = "" THEN 250 ELSE 553)
    /\ UNCHANGED raceless

NextRace ==
    \/ RaceAccept
    \/ \E t \in DOMAIN race : \E arg \in RaceArgs : RaceIssue(t, "DELE", arg)
    \/ \E t \in DOMAIN race : \E arg \in RaceArgs : RaceIssue(t, "RMD", arg)
    \/ \E t \in DOMAIN race : RaceExists(t)
    \/ \E t \in DOMAIN race : RaceRemove(t)
    \/ \E t \in DOMAIN race : RaceListdir(t)
    \/ \E t \in DOMAIN race : RaceRmdir(t)

SpecRace == Init /\ [][NextRace]_vars

\* ------------------------------------------------------------------ claims
IsReply(e) == e.ev = "reply"
Replies(tr) == SelectSeq(tr, IsReply)
Has(tr, e) == \E i \in DOMAIN tr : tr[i] = e
HasEv(tr, name, n) == \E i \in DOMAIN tr : tr[i].ev = name /\ tr[i].n = n

\* the system calls MKD, RMD, DELE, RNFR, RNTO, RETR, STOR and APPE make
PathCalls == {"stat", "mkdir", "rmdir", "listdir", "remove", "rename", "rename_to",
              "open_r", "open_w", "write"}

\* C1: every path on which a system call of a command succeeds, a read that
\* finds its target or a change that happens, is root or lies below root.
C1_PathsInRoot ==
    \A i \in DOMAIN trace :
        (trace[i].ev \in PathCalls /\ trace[i].n = 1) => InRoot(trace[i].path)

\* C2: in every state reached by CWD and CDUP the session's cwd names root or
\* a descendant of root.
C2_CwdInRoot == InRoot(NormPath(cwd.segs))

\* C3: after a CWD from root into an existing directory d levels down, given
\* by plain names, the CDUPs that follow never leave cwd above root, and once
\* more than d of them were processed cwd is root; in both implementations.
C3_ClampAtRoot ==
    /\ nav # <<>> =>
          /\ InRoot(NormPath(cwd.segs))
          /\ nav[2] > nav[1] => cwd = [kind |-> "str", segs |-> Root]
    /\ nav0 # <<>> =>
          /\ InRoot(cwd0)
          /\ nav0[2] > nav0[1] => cwd0 = Root

\* two levels down and more than two CDUPs later in server_ftp.py, while the
\* ftpsrv.py session has climbed more often than it went down
C3_Witness ==
    /\ nav # <<>> /\ nav[1] = 2 /\ nav[2] > 2
    /\ nav0 # <<>> /\ nav0[2] > nav0[1]

\* whether walking segs from root, one level down per name and one up per
\* "..", ever stands above root
RECURSIVE ClimbsFrom(_, _)
ClimbsFrom(level, segs) ==
    IF segs = <<>> THEN FALSE
    ELSE LET l == IF Head(segs) = ".." THEN level - 1
                  ELSE IF Head(segs) \in {".", ""} THEN level
                  ELSE level + 1
         IN l < 0 \/ ClimbsFrom(l, Tail(segs))

Climbs(arg) == ClimbsFrom(0, arg.segs)

\* what each command that takes a path does with arg in the current state
PathOutcomes(arg) ==
    {CWD(Cur, arg), MKD(Cur, arg), RMD(Cur, arg), DELE(Cur, arg), RNFR(Cur, arg),
     RNTO(Cur, arg)}
    \cup {RETR(Cur, arg, env) : env \in Envs}
    \cup {STOR(Cur, arg, env) : env \in Envs}
    \cup {APPE(Cur, arg, env) : env \in Envs}

C5_RntoNeedsRnfr ==
    (pc = "replied" /\ rn = "rnto_bare") =>
        /\ FinalReply(trace) >= 400
        /\ ~HasEv(trace, "rename", 1)

\* C6: filename_cache holds a name only from an RNFR answered 350 until the
\* next RNTO has been processed.
C6_CacheOnlyWhileArmed == filename_cache # Unset => rn = "armed"

\* no PORT and no PASV has succeeded: PORT sets data_port only when it
\* succeeds, PASV sets pasv_mode, and nothing clears either
NoChannel == ~pasv_mode /\ data_port = Unset

\* C7: while no PORT and no PASV has succeeded, a command connects or accepts
\* no data socket, sends and receives nothing, opens no file for writing, and
\* a transfer announced with 150 ends in an error reply.
C7_NoTransferWithoutChannel ==
    (pc = "replied" /\ NoChannel) =>
        /\ ~HasEv(trace, "connect", 1) /\ ~HasEv(trace, "accept", 1)
        /\ \A i \in DOMAIN trace : trace[i].ev \notin {"send", "recv", "open_w", "write"}
        /\ files = InitFiles
        /\ Has(trace, Reply(150)) => FinalReply(trace) >= 400

\* a transfer was announced with no channel set up, after a PORT that failed
C7_Witness ==
    /\ pc = "replied" /\ NoChannel
    /\ data_addr # Unset
    /\ Has(trace, Reply(150)) /\ HasEv(trace, "connect", 0)

\* C8: a command is answered by exactly one final reply, sent after
\* everything else it did; the only reply before it is one 150.
C8_OneFinalReply ==
    pc = "replied" =>
        /\ trace # <<>>
        /\ IsReply(Last(trace)) /\ FinalReply(trace) >= 200
        /\ Len(Replies(trace)) <= 2
        /\ Len(Replies(trace)) = 2 => Replies(trace)[1] = Reply(150)

\* a transfer broke after its 150 and after the data socket was open
C8_Witness ==
    /\ pc = "replied"
    /\ Has(trace, Reply(150)) /\ HasEv(trace, "send", 0)
    /\ FinalReply(trace) = 500

\* a transfer succeeded: nothing it tried failed
Succeeded(tr) == \A i \in DOMAIN tr : ~IsReply(tr[i]) => tr[i].n = 1
Acquire(e) == e.ev \in {"connect", "accept"}
Release(e) == e.ev = "close"

\* C9: a transfer announced with 150 that succeeds is answered 226, with the
\* data socket taken after the 150 and closed before the 226; one that fails
\* is answered 425, 426, 451 or 501.
C9_TransferReplies ==
    (pc = "replied" /\ Has(trace, Reply(150))) =>
        IF Succeeded(trace)
        THEN /\ FinalReply(trace) = 226
             /\ \E i, j, k \in DOMAIN trace :
                   /\ i < j /\ j < k /\ k < Len(trace)
                   /\ trace[i] = Reply(150) /\ Acquire(trace[j]) /\ Release(trace[k])
        ELSE FinalReply(trace) \in {425, 426, 451, 501}

\* C10: when the final reply of a transfer announced with 150 is sent, the
\* session holds no connected data socket and, in passive mode, no listening
\* socket.
C10_SocketsClosed ==
    (pc = "replied" /\ Has(trace, Reply(150))) =>
        /\ datasocket # "open"
        /\ pasv_mode => serversocket # "listening"

HasName(tr, name) == \E i \in DOMAIN tr : tr[i].ev = name

\* C11: a transfer command read when the channel registered last is a PASV
\* that a completed transfer has already used moves no data and is answered
\* with an error.
C11_PassiveSingleUse ==
    [][(pc = "ready" /\ reg = "pasv" /\ used /\ Has(trace', Reply(150))) =>
          /\ FinalReply(trace') >= 400
          /\ ~HasEv(trace', "accept", 1)
          /\ ~HasEv(trace', "send", 1)
          /\ ~HasEv(trace', "recv", 1)]_vars

\* C20: a transfer uses the mode of the PORT or PASV that succeeded last: it
\* connects outward after a PORT and accepts on the listener after a PASV.
C20_ModeOfLastRegistration ==
    [][(pc = "ready" /\ Has(trace', Reply(150))) =>
          /\ reg = "port" => HasName(trace', "connect") /\ ~HasName(trace', "accept")
          /\ reg = "pasv" => HasName(trace', "accept") /\ ~HasName(trace', "connect")]_vars

\* the leading token of a line: the text before the first white space
RECURSIVE TokenOf(_)
TokenOf(cs) == IF cs = <<>> \/ cs[1] \in White THEN "" ELSE cs[1] \o TokenOf(Tail(cs))

OwnsNoSocket(ds, ss) == ds \notin {"created", "open"} /\ ss # "listening"

\* C12: a line whose leading token is not a supported verb is answered with
\* 500 Bad command or not implemented, no handler runs, and the session's
\* state and the file tree stay as they were.
C12_UnknownVerbRejected ==
    [][(/\ pc = "ready"
        /\ msg' # Unset
        /\ TokenOf(msg'[1]) # ""
        /\ TokenOf(msg'[1]) \notin ALLOWED_COMMANDS) =>
          /\ trace' = <<Reply(500)>>
          /\ wire' = "500 Bad command or not implemented \r\n"
          /\ UNCHANGED Session]_vars

\* C13: once 221 has been sent the session is closed instead of reading
\* another line, and a closed session owns no data socket and no listener.
C13_QuitCloses ==
    [][/\ (pc = "replied" /\ Has(trace, Reply(221))) => pc' = "closed"
       /\ pc' = "closed" => OwnsNoSocket(datasocket', serversocket')]_vars

\* C14: the loop ends only when the stream is at its end or the line before
\* was QUIT; after any other line the session answers and reads on.
C14_LoopEndsOnlyOnQuitOrEof ==
    [][(pc = "ready" /\ pc' = "closed") =>
          \/ msg' = Some(<<>>)
          \/ msg # Unset /\ TokenOf(msg[1]) = "QUIT"]_vars

\* C15: the first thing sent on a connection, before any line is read, is the
\* one greeting 220 Welcome! ; USER and PASS with any argument are answered
\* 230 and change nothing in the session.
C15_GreetingAndLogin ==
    [][/\ pc = "init" => /\ msg = Unset /\ trace = <<>>
                         /\ trace' = <<Reply(220)>>
                         /\ wire' = "220 Welcome! \r\n"
       /\ pc # "init" => ~Has(trace', Reply(220))
       /\ (pc = "ready" /\ msg' # Unset /\ TokenOf(msg'[1]) \in {"USER", "PASS"}) =>
             /\ trace' = <<Reply(230)>>
             /\ UNCHANGED Session]_vars

C15_Witness ==
    /\ pc = "replied"
    /\ msg = Some(<<"P", "A", "S", "S", "\r", "\n">>)
    /\ trace = <<Reply(230)>>
    /\ wire = "230 OK. \r\n"

\* C16: PWD is answered 257 with cwd relative to root, quoted and prefixed by
\* "/": "/" at root, "/n" in the subdirectory n of root.
C16_PwdRelativeToRoot ==
    (pc = "replied" /\ msg # Unset /\ CmdOf(msg[1]) = "PWD" /\ InRoot(NormPath(cwd.segs))) =>
        /\ trace = <<Reply(257)>>
        /\ wire = FtpResponse(257, "\"/"
                     \o SlashJoin(SubSeq(NormPath(cwd.segs), Len(Root) + 1,
                                         Len(NormPath(cwd.segs))))
                     \o "\"")

\* C17: a RETR of the file the last STOR wrote sends on the data socket
\* exactly the bytes the client uploaded, in type A and in type I.
C17_RoundTrip ==
    (/\ pc = "replied"
     /\ HasEv(trace, "send", 1)
     /\ uploaded # <<>>
     /\ Has(trace, Sys("open_r", TRUE, uploaded[1]))) =>
        delivered = uploaded[2]

\* C18: the two numbers of a 227 reply are the high and the low byte of the
\* port the listener is bound to, each within 0..255, and PORT's formula gives
\* that port back from them, for every port of 0..65535; the listener is open
\* and is the one the next transfer accepts its connection from.
C18_PasvEncodesBoundPort ==
    /\ pc = "init" =>
          \A port \in AllPorts :
              /\ PasvHigh(port) \in 0 .. 255
              /\ PasvLow(port) \in 0 .. 255
              /\ PortOf(PasvHigh(port), PasvLow(port)) = port
              /\ PASV(Cur, port).s.data_port = Some(port)
    /\ (pc = "replied" /\ Has(trace, Reply(227))) =>
          /\ wire = "227 Entering Passive Mode (127,0,0,1,"
                       \o ToString(data_port[1] \div 256) \o ","
                       \o ToString(data_port[1] % 256) \o ") \r\n"
          /\ data_addr = Some(Host)
          /\ pasv_mode /\ serversocket = "listening"
    /\ (pc = "ready" /\ msg = Some(LinePASV)) =>
          \A env \in Envs :
              /\ Has(LIST(Cur, env).ev, Sock("accept", TRUE))
              /\ ~HasName(LIST(Cur, env).ev, "connect")

C18_Witness ==
    /\ pc = "replied"
    /\ msg = Some(LinePASV)
    /\ data_port = Some(65280)
    /\ wire = "227 Entering Passive Mode (127,0,0,1,255,0) \r\n"

C25_FailedPortKeepsTarget == <<data_addr, data_port>> = lastreg

\* C22: CWD resolves a relative argument against cwd: when the argument names
\* an existing directory below cwd and inside root, CWD replies 250 and cwd
\* becomes that directory, and a CWD that replies 250 sets cwd to nothing but
\* the argument resolved from the cwd before it.
C22_CwdResolvesAgainstCwd ==
    pc = "ready" =>
        \A arg \in Args : ~arg.abs =>
            LET target == NormPath(Join(cwd.segs, arg))
                r == CWD(Cur, arg)
            IN
            /\ (Exists(Cur, Join(cwd.segs, arg)) /\ target \in dirs /\ InRoot(target)) =>
                   (r.status = 250 /\ NormPath(r.s.cwd.segs) = target)
            /\ r.status = 250 => NormPath(r.s.cwd.segs) = target

\* C23: an MKD, RMD, DELE or RNFR that does not succeed, and a RETR of a
\* name that is no regular file, replies 553 without an exception reaching
\* the loop (which would answer 500) and leaves the file tree as it was.
C23_FailedPreconditionIs553 ==
    pc = "ready" =>
        \A arg \in Args :
            /\ \A r \in {MKD(Cur, arg), RMD(Cur, arg), DELE(Cur, arg), RNFR(Cur, arg)} :
                  (r.raised \/ r.status >= 400) =>
                      (~r.raised /\ r.status = 553 /\ r.s.dirs = dirs /\ r.s.files = files)
            /\ NormPath(Join(cwd.segs, arg)) \notin files =>
                  LET r == RETR(Cur, arg, "ok") IN
                  ~r.raised /\ r.status = 553 /\ r.s.dirs = dirs /\ r.s.files = files

\* C24: the entry an RNTO renames is the one, by absolute path, that the last
\* RNFR answered 350 looked up, and the path it is renamed to lies in root,
\* whatever commands came between the two.
C24_RenamesWhatRnfrChecked ==
    \A i \in DOMAIN trace :
        /\ (trace[i].ev = "rename" /\ trace[i].n = 1) => rnpath = Some(trace[i].path)
        /\ (trace[i].ev = "rename_to" /\ trace[i].n = 1) => InRoot(trace[i].path)

\* thread t has ended the command in race[t]
Finished(t) == race[t].at = "recv" /\ race[t].reply # 0

\* C26: when two sessions with the same cwd have each ended a DELE of the
\* same file, or an RMD of the same empty directory, that was there for both
\* when their commands arrived, one replied 250 and the other 553, whatever
\* the order of their steps; neither replied 500.
C26_RaceOneWinsOneFails ==
    \A t, u \in DOMAIN race :
        (/\ t < u
         /\ Finished(t) /\ Finished(u)
         /\ race[t].cmd = race[u].cmd /\ race[t].arg = race[u].arg
         /\ race[t].saw /\ race[u].saw)
        => (race[t].reply # 500 /\ race[u].reply # 500
            /\ {race[t].reply, race[u].reply} = {250, 553})

====
